---- MODULE Spec2Model ----
(***************************************************************************)
(* LitExplorer: normalisation and clustering of experiment runs.           *)
(*                                                                         *)
(* The model follows src/src/experiment_grouping.rs,                       *)
(* src/src/models/parameter_value.rs, src/src/yaml_parser.rs and, for the  *)
(* detail panel, src/src/tui.                                              *)
(*                                                                         *)
(* Representation.                                                         *)
(*   - A ParameterValue is a record with a tag t and a payload v.          *)
(*   - An f64 is a fixed-point integer counting units of 10^-7, so 0.001   *)
(*     is 10000 units; NaN is the Float whose nan flag is set, +infinity   *)
(*     the Float whose inf flag is set.                                    *)
(*   - An i64 is a two's-complement integer of IntBits bits, so I64Max     *)
(*     stands for i64::MAX and I64Min for i64::MIN; a usize is an unsigned *)
(*     integer of UsizeBits bits.                                          *)
(*   - A HashMap<String, ParameterValue> is a function whose DOMAIN is the *)
(*     set of keys present.                                                *)
(*   - Option<Vec<String>> is a record [some, val].                        *)
(*   - A VersionData is [version_num, hparams]; its path is a function of  *)
(*     the file alone and takes part in no decision, so it is left out.    *)
(*   - The files are those find_hparams_files yields: their directory is   *)
(*     version_<u32>, so extract_version_number_safe succeeds on each; the *)
(*     runs have distinct version numbers.                                 *)
(***************************************************************************)
EXTENDS Integers, Sequences, FiniteSets, TLC

VARIABLES
    config,                 \* the Config every operation reads
    parsed_results,         \* what parse_multiple_hparams_files returned, in file order
    pc,                     \* position of the program
    versions,               \* Vec<VersionData> returned by create_version_data_list
    group_common_hparams,   \* the second component it returns
    error,                  \* the Err it returns, if any
    ungrouped_versions,     \* group_versions: the stack still to be popped
    groups,                 \* group_versions: the groups built so far
    similar_groups,         \* what find_similar_groups returned
    call_args,              \* the arguments of a function called on its own
    call_result,            \* what it returned
    tui                     \* the terminal interface: its App, frame and build

vars == <<config, parsed_results, pc, versions, group_common_hparams, error,
          ungrouped_versions, groups, similar_groups, call_args, call_result, tui>>

\* The variables of the calls of single functions.
call == <<call_args, call_result>>

----------------------------------------------------------------------------
(* Bounds *)

MaxRecords == 3

\* Integer attribute values range over 0..MaxInt.
MaxInt == 3

\* int_tolerance ranges over 0..MaxTol, float_tolerance over as many thousandths.
MaxTol == 2

\* Width of the machine integers of the model.
IntBits == 8

\* similarity_threshold ranges over 0..MaxThreshold.
MaxThreshold == 1

\* Lists have at most MaxListLen elements.
MaxListLen == 2

\* Width of usize in the model.
UsizeBits == 3

\* The detail panel is 0..MaxHeight rows high.
MaxHeight == 5

\* The detail content of a version has MinLines..MaxLines lines.
MaxLines == 4

\* The version list is laid out in 1..MaxCols columns.
MaxCols == 2

----------------------------------------------------------------------------
(* Option, sequences, maps *)

None == [some |-> FALSE, val |-> <<>>]

Some(x) == [some |-> TRUE, val |-> x]

\* The terminal interface before TuiApp::new: main has not started it.
NoTui == <<>>

Range(s) == {s[i] : i \in 1..Len(s)}

EmptyMap == <<>>

MapRemove(m, ks) == [k \in (DOMAIN m) \ ks |-> m[k]]

MapInsert(m, key, val) == [k \in (DOMAIN m) \cup {key} |-> IF k = key THEN val ELSE m[k]]

Abs(n) == IF n < 0 THEN -n ELSE n

\* Rust's % on integers: the remainder has the sign of the dividend.
Rem(a, b) == IF a >= 0 THEN a % b ELSE -((-a) % b)

I64Min == -(2 ^ (IntBits - 1))

I64Max == 2 ^ (IntBits - 1) - 1

\* The i64 a mathematical integer wraps to (overflow checks off).
Wrap(n) == ((n - I64Min) % (2 ^ IntBits)) + I64Min

\* (a - b).abs() on i64 with overflow checks off: both steps wrap.
wrapping_abs_diff(a, b) ==
    LET d == Wrap(a - b)
    IN  IF d < 0 THEN Wrap(-d) ELSE d

\* (a - b).abs() overflows: a build with overflow checks panics here.
abs_diff_overflows(a, b) ==
    \/ a - b < I64Min
    \/ a - b > I64Max
    \/ a - b = I64Min

----------------------------------------------------------------------------
(* ParameterValue *)

PString(s) == [t |-> "String", v |-> s]

PFloat(n) == [t |-> "Float", v |-> n, nan |-> FALSE, inf |-> FALSE]

PNaN == [t |-> "Float", v |-> 0, nan |-> TRUE, inf |-> FALSE]

\* f64::INFINITY, which YAML writes .inf
PInf == [t |-> "Float", v |-> 0, nan |-> FALSE, inf |-> TRUE]

PInt(n) == [t |-> "Int", v |-> n]

PBool(b) == [t |-> "Bool", v |-> b]

PList(l) == [t |-> "List", v |-> l]

\* str::to_lowercase on the strings of the model: the only ones with an
\* upper-case letter are "CNN" and "Adam".
to_lowercase(s) ==
    CASE s = "CNN" -> "cnn"
      [] s = "Adam" -> "adam"
      [] OTHER -> s

\* #[derive(PartialEq)]: same variant and equal payload; f64 equality makes
\* NaN different from everything, itself included.
RECURSIVE pv_eq(_, _)
pv_eq(a, b) ==
    IF a.t # b.t THEN FALSE
    ELSE CASE a.t = "Float" -> ~a.nan /\ ~b.nan /\ a.inf = b.inf /\ a.v = b.v
           [] a.t = "List" -> /\ Len(a.v) = Len(b.v)
                              /\ \A i \in 1..Len(a.v) : pv_eq(a.v[i], b.v[i])
           [] OTHER -> a.v = b.v

\* With an infinite operand a - b is infinite or NaN, and neither is <= a
\* finite tolerance.
basic_equals_with_tolerance(a, b, tolerance) ==
    CASE a.t = "String" /\ b.t = "String" ->
            IF tolerance.string_case_sensitive
            THEN a.v = b.v
            ELSE to_lowercase(a.v) = to_lowercase(b.v)
      [] a.t = "Float" /\ b.t = "Float" ->
            IF a.nan \/ b.nan
            THEN a.nan /\ b.nan
            ELSE IF a.inf \/ b.inf
            THEN FALSE
            ELSE Abs(a.v - b.v) <= tolerance.float_tolerance
      [] a.t = "Int" /\ b.t = "Int" ->
            wrapping_abs_diff(a.v, b.v) <= tolerance.int_tolerance
      [] a.t = "Bool" /\ b.t = "Bool" -> a.v = b.v
      [] OTHER -> FALSE

RECURSIVE equals_with_tolerance(_, _, _)
equals_with_tolerance(a, b, tolerance) ==
    CASE a.t # "List" /\ b.t # "List" -> basic_equals_with_tolerance(a, b, tolerance)
      [] a.t = "List" /\ b.t = "List" ->
            IF Len(a.v) # Len(b.v) THEN FALSE
            ELSE \A i \in 1..Len(a.v) : equals_with_tolerance(a.v[i], b.v[i], tolerance)
      [] OTHER -> FALSE

\* Whether equals_with_tolerance(a, b) reaches an overflowing (a - b).abs(),
\* where a build with overflow checks panics: the list loop returns at the
\* first pair that is not equal, so only the pairs before it are evaluated.
equals_panics(a, b, tolerance) ==
    CASE a.t = "Int" /\ b.t = "Int" -> abs_diff_overflows(a.v, b.v)
      [] a.t = "List" /\ b.t = "List" /\ Len(a.v) = Len(b.v) ->
            \E i \in 1..Len(a.v) :
                /\ a.v[i].t = "Int" /\ b.v[i].t = "Int"
                /\ abs_diff_overflows(a.v[i].v, b.v[i].v)
                /\ \A j \in 1..(i - 1) :
                      basic_equals_with_tolerance(a.v[j], b.v[j], tolerance)
      [] OTHER -> FALSE

\* What a call returns in a build with (overflow_checks) or without overflow
\* checks: a panic, or the value.
equals_outcome(a, b, tolerance, overflow_checks) ==
    IF overflow_checks /\ equals_panics(a, b, tolerance)
    THEN [panicked |-> TRUE, value |-> FALSE]
    ELSE [panicked |-> FALSE, value |-> equals_with_tolerance(a, b, tolerance)]

\* Six decimal digits of a count of millionths, zero padded.
Digits6(n) ==
    ToString((n \div 100000) % 10) \o ToString((n \div 10000) % 10)
      \o ToString((n \div 1000) % 10) \o ToString((n \div 100) % 10)
      \o ToString((n \div 10) % 10) \o ToString(n % 10)

\* format!("{:.6}", f): the value rounded to the nearest millionth (ties to
\* even), with the sign kept.
FloatRepr(f) ==
    IF f.nan THEN "NaN"
    ELSE IF f.inf THEN "inf"
    ELSE LET a == Abs(f.v)
             q == a \div 10
             r == a % 10
             m == IF r > 5 \/ (r = 5 /\ q % 2 = 1) THEN q + 1 ELSE q
         IN  (IF f.v < 0 THEN "-" ELSE "")
               \o ToString(m \div 1000000) \o "." \o Digits6(m % 1000000)

to_string_repr(b) ==
    CASE b.t = "String" -> b.v
      [] b.t = "Float" -> FloatRepr(b)
      [] b.t = "Int" -> ToString(b.v)
      [] b.t = "Bool" -> IF b.v THEN "true" ELSE "false"

RECURSIVE JoinStrings(_, _)
JoinStrings(parts, sep) ==
    IF parts = <<>> THEN ""
    ELSE IF Len(parts) = 1 THEN parts[1]
    ELSE parts[1] \o sep \o JoinStrings(Tail(parts), sep)

\* impl Display for ParameterValue
RECURSIVE Display(_)
Display(value) ==
    IF value.t = "List"
    THEN "[" \o JoinStrings([i \in 1..Len(value.v) |-> Display(value.v[i])], ", ") \o "]"
    ELSE to_string_repr(value)

----------------------------------------------------------------------------
(* serde_yaml::Value and flatten_yaml_value *)

YNull == [t |-> "Null", v |-> <<>>]

YString(x) == [t |-> "String", v |-> x]

\* A number is an i64 or an f64; the f64 is given as the Float it becomes.
YInt(n) == [t |-> "Number", v |-> [is_i64 |-> TRUE, n |-> n, f |-> PNaN]]

YFloat(f) == [t |-> "Number", v |-> [is_i64 |-> FALSE, n |-> 0, f |-> f]]

YBool(b) == [t |-> "Bool", v |-> b]

YSeq(items) == [t |-> "Sequence", v |-> items]

\* A mapping is the sequence of its <<key, value>> entries in document order,
\* which is the order its iteration yields them; the keys are values.
YMap(entries) == [t |-> "Mapping", v |-> entries]

YTagged(value) == [t |-> "Tagged", v |-> value]

\* matches!(v, String(_) | Number(_) | Bool(_))
is_leaf(v) == v.t \in {"String", "Number", "Bool"}

\* base_value_to_parameter_value on a string, a number or a boolean (its
\* callers pass nothing else).
base_value_to_parameter_value(value) ==
    CASE value.t = "String" -> PString(value.v)
      [] value.t = "Number" -> IF value.v.is_i64 THEN PInt(value.v.n) ELSE value.v.f
      [] value.t = "Bool" -> PBool(value.v)

\* new_path for the child key_str of a mapping at path.
new_path(path, key_str) == IF path = "" THEN key_str ELSE path \o "-" \o key_str

\* item_path with the elements counted from one.
item_path_OneBased(path, i) == path \o "-" \o ToString(i)

\* item_path for the element at position i (from 1) of a sequence at path:
\* enumerate() counts from zero.
item_path(path, i) == path \o "-" \o ToString(i - 1)

RECURSIVE flatten_yaml_value(_, _, _)
RECURSIVE flatten_entries(_, _, _, _)
RECURSIVE flatten_items(_, _, _, _)

\* for (key, val) in map, from entry i on; a key that is not a string ends
\* the call with an error.
flatten_entries(entries, i, output, path) ==
    IF i > Len(entries) THEN [ok |-> TRUE, output |-> output]
    ELSE IF entries[i][1].t # "String" THEN [ok |-> FALSE, output |-> output]
    ELSE LET r == flatten_yaml_value(entries[i][2], output,
                                     new_path(path, entries[i][1].v))
         IN  IF r.ok THEN flatten_entries(entries, i + 1, r.output, path) ELSE r

\* for (i, item) in seq.iter().enumerate(), from position i on.
flatten_items(seq, i, output, path) ==
    IF i > Len(seq) THEN [ok |-> TRUE, output |-> output]
    ELSE LET r == flatten_yaml_value(seq[i], output, item_path(path, i))
         IN  IF r.ok THEN flatten_items(seq, i + 1, r.output, path) ELSE r

\* The result is [ok, output]: whether the call returned Ok, and the output
\* map as the call left it.
flatten_yaml_value(value, output, path) ==
    CASE value.t = "Mapping" -> flatten_entries(value.v, 1, output, path)
      [] value.t = "Sequence" ->
            IF \A i \in 1..Len(value.v) : is_leaf(value.v[i])
            THEN [ok |-> TRUE,
                  output |-> MapInsert(output, path,
                                       PList([i \in 1..Len(value.v) |->
                                                base_value_to_parameter_value(value.v[i])]))]
            ELSE flatten_items(value.v, 1, output, path)
      [] value.t = "Tagged" -> flatten_yaml_value(value.v, output, path)
      [] value.t = "Null" -> [ok |-> TRUE, output |-> output]
      [] OTHER ->
            [ok |-> TRUE,
             output |-> MapInsert(output, path, base_value_to_parameter_value(value))]

\* parse_hparams_file on a file that holds the document yaml_value: the
\* flattening at the empty path; the map is returned only with Ok.
parse_hparams_file(yaml_value) ==
    LET r == flatten_yaml_value(yaml_value, EmptyMap, "")
    IN  [ok |-> r.ok, hparams |-> IF r.ok THEN r.output ELSE EmptyMap]

\* ParseLoop with what a failed flattening had inserted kept as a record.
RECURSIVE ParseLoop_KeepPartial(_, _)
ParseLoop_KeepPartial(file_paths, results) ==
    IF file_paths = <<>> THEN results
    ELSE LET file == Head(file_paths)
         IN  ParseLoop_KeepPartial(
                 Tail(file_paths),
                 Append(results,
                        [version_num |-> file.version_num,
                         hparams |-> flatten_yaml_value(file.yaml_value, EmptyMap, "").output]))

\* for file_path in file_paths: an Ok is pushed, an Err is reported and skipped.
RECURSIVE ParseLoop(_, _)
ParseLoop(file_paths, results) ==
    IF file_paths = <<>> THEN results
    ELSE LET file == Head(file_paths)
             parsed == parse_hparams_file(file.yaml_value)
         IN  ParseLoop(Tail(file_paths),
                       IF parsed.ok
                       THEN Append(results, [version_num |-> file.version_num,
                                             hparams |-> parsed.hparams])
                       ELSE results)

\* A file is its version number and the document it holds.
parse_multiple_hparams_files(file_paths) == ParseLoop(file_paths, <<>>)

----------------------------------------------------------------------------
(* filter_parameters *)

\* FilterAllowed with the ignore-list forgotten on the allow-list path.
RECURSIVE FilterAllowed_KeepIgnored(_, _, _, _)
FilterAllowed_KeepIgnored(hparams, ignored_set, params, filtered_params) ==
    IF params = <<>> THEN filtered_params
    ELSE LET param_name == Head(params)
             next == IF param_name \in DOMAIN hparams
                     THEN MapInsert(filtered_params, param_name, hparams[param_name])
                     ELSE filtered_params
         IN  FilterAllowed_KeepIgnored(hparams, ignored_set, Tail(params), next)

RECURSIVE FilterAllowed(_, _, _, _)
FilterAllowed(hparams, ignored_set, params, filtered_params) ==
    IF params = <<>> THEN filtered_params
    ELSE LET param_name == Head(params)
             next == IF param_name \in DOMAIN hparams /\ param_name \notin ignored_set
                     THEN MapInsert(filtered_params, param_name, hparams[param_name])
                     ELSE filtered_params
         IN  FilterAllowed(hparams, ignored_set, Tail(params), next)

filter_parameters(hparams, ignored_params, grouping_params) ==
    LET ignored_set == Range(ignored_params)
    IN  IF grouping_params.some
        THEN FilterAllowed(hparams, ignored_set, grouping_params.val, EmptyMap)
        ELSE [k \in {key \in DOMAIN hparams : key \notin ignored_set} |-> hparams[k]]

----------------------------------------------------------------------------
(* create_version_data_list *)

RECURSIVE FirstMissingMainKey(_, _)
FirstMissingMainKey(main_keys, hparams) ==
    IF main_keys = <<>> THEN None
    ELSE IF Head(main_keys) \notin DOMAIN hparams THEN Some(Head(main_keys))
    ELSE FirstMissingMainKey(Tail(main_keys), hparams)

\* IngestLoop with the offending record skipped instead of failing the batch.
RECURSIVE IngestLoop_SkipMissing(_, _, _)
IngestLoop_SkipMissing(cfg, results, acc) ==
    IF results = <<>> THEN [ok |-> TRUE, versions |-> acc, err |-> None]
    ELSE LET file == Head(results)
             missing == IF cfg.main_key.some
                        THEN FirstMissingMainKey(cfg.main_key.val, file.hparams)
                        ELSE None
             version_data ==
                 [version_num |-> file.version_num,
                  hparams |-> filter_parameters(file.hparams, cfg.ignored_parameters,
                                                cfg.grouping_parameters)]
         IN  IF missing.some
             THEN IngestLoop_SkipMissing(cfg, Tail(results), acc)
             ELSE IngestLoop_SkipMissing(cfg, Tail(results), Append(acc, version_data))

\* The loop over parsed_results: the main-key validation on the unfiltered
\* mapping, then the filter, then the push.
RECURSIVE IngestLoop(_, _, _)
IngestLoop(cfg, results, acc) ==
    IF results = <<>> THEN [ok |-> TRUE, versions |-> acc, err |-> None]
    ELSE LET file == Head(results)
             missing == IF cfg.main_key.some
                        THEN FirstMissingMainKey(cfg.main_key.val, file.hparams)
                        ELSE None
             version_data ==
                 [version_num |-> file.version_num,
                  hparams |-> filter_parameters(file.hparams, cfg.ignored_parameters,
                                                cfg.grouping_parameters)]
         IN  IF missing.some
             THEN [ok |-> FALSE, versions |-> <<>>,
                   err |-> Some([version_num |-> file.version_num,
                                 main_key |-> missing.val])]
             ELSE IngestLoop(cfg, Tail(results), Append(acc, version_data))

\* Vec::sort_by is stable: an element goes after those that compare equal.
RECURSIVE InsertByVersion(_, _)
InsertByVersion(sorted, x) ==
    IF sorted = <<>> THEN <<x>>
    ELSE IF Head(sorted).version_num <= x.version_num
         THEN <<Head(sorted)>> \o InsertByVersion(Tail(sorted), x)
         ELSE <<x>> \o sorted

RECURSIVE SortByVersion(_)
SortByVersion(s) ==
    IF s = <<>> THEN <<>>
    ELSE InsertByVersion(SortByVersion(SubSeq(s, 1, Len(s) - 1)), s[Len(s)])

RECURSIVE GroupKeyParts(_, _)
GroupKeyParts(hparams, main_keys) ==
    IF main_keys = <<>> THEN <<>>
    ELSE LET main_key == Head(main_keys)
             part == IF main_key \in DOMAIN hparams
                     THEN <<main_key \o "=" \o Display(hparams[main_key])>>
                     ELSE <<>>
         IN  part \o GroupKeyParts(hparams, Tail(main_keys))

\* The bucket key of a version: present only when every main key gave a part.
KeyOfParts(group_key_parts, main_keys) ==
    IF Len(group_key_parts) = Len(main_keys)
    THEN Some(JoinStrings(group_key_parts, ", "))
    ELSE None

GroupKey(hparams, main_keys) == KeyOfParts(GroupKeyParts(hparams, main_keys), main_keys)

\* groups: HashMap<String, Vec<usize>>, from the bucket key of each position;
\* the indices of a bucket are ascending.
BucketsOf(keys) ==
    [g \in {keys[i].val : i \in {j \in 1..Len(keys) : keys[j].some}} |->
        LET Test(i) == keys[i].some /\ keys[i].val = g
        IN  SelectSeq([i \in 1..Len(keys) |-> i], Test)]

MainKeyGroups(vs, main_keys) ==
    BucketsOf([i \in 1..Len(vs) |-> GroupKey(vs[i].hparams, main_keys)])

\* CommonParams with the values not compared: a key every listed version has.
CommonParams_PresenceOnly(vs, indices, excluded) ==
    LET first_version_hparams == vs[indices[1]].hparams
        is_common(key) ==
            \A n \in 2..Len(indices) : key \in DOMAIN vs[indices[n]].hparams
    IN  [key \in {k \in (DOMAIN first_version_hparams) \ excluded : is_common(k)}
            |-> first_version_hparams[key]]

\* The parameters of the first listed version that every other listed version
\* has with an equal value, the excluded keys left aside.
CommonParams(vs, indices, excluded) ==
    LET first_version_hparams == vs[indices[1]].hparams
        is_common(key) ==
            \A n \in 2..Len(indices) :
                /\ key \in DOMAIN vs[indices[n]].hparams
                /\ pv_eq(vs[indices[n]].hparams[key], first_version_hparams[key])
    IN  [key \in {k \in (DOMAIN first_version_hparams) \ excluded : is_common(k)}
            |-> first_version_hparams[key]]

\* BucketCommons without the test that a bucket has more than one version.
BucketCommons_AnySize(vs, main_keys, buckets) ==
    [g \in DOMAIN buckets |-> CommonParams(vs, buckets[g], Range(main_keys))]

\* group_common_hparams: for each bucket of more than one version, the
\* parameters common to its versions, the main keys left aside.
BucketCommons(vs, main_keys, buckets) ==
    [g \in {k \in DOMAIN buckets : Len(buckets[k]) > 1} |->
        CommonParams(vs, buckets[g], Range(main_keys))]

\* The removal of each recorded bucket's common parameters from its versions.
RemoveCommons(vs, buckets, common) ==
    [versions |->
        [i \in 1..Len(vs) |->
            [version_num |-> vs[i].version_num,
             hparams |-> MapRemove(vs[i].hparams,
                                   UNION {DOMAIN common[g]
                                             : g \in {k \in DOMAIN common
                                                         : i \in Range(buckets[k])}})]],
     common |-> common]

StripBuckets(vs, main_keys, buckets) ==
    RemoveCommons(vs, buckets, BucketCommons(vs, main_keys, buckets))

\* The main_key branch: buckets, their common parameters, the stripping.
StripByMainKey(vs, main_keys) ==
    StripBuckets(vs, main_keys, MainKeyGroups(vs, main_keys))

\* StripGlobal with the first version compared with the second one only.
StripGlobal_FirstTwo(vs) ==
    IF vs = <<>> THEN vs
    ELSE LET common_params ==
                 CommonParams(vs, [i \in 1..(IF Len(vs) > 2 THEN 2 ELSE Len(vs)) |-> i], {})
         IN  [i \in 1..Len(vs) |->
                [version_num |-> vs[i].version_num,
                 hparams |-> MapRemove(vs[i].hparams, DOMAIN common_params)]]

\* The branch without main_key and without grouping_parameters.
StripGlobal(vs) ==
    IF vs = <<>> THEN vs
    ELSE LET common_params == CommonParams(vs, [i \in 1..Len(vs) |-> i], {})
         IN  [i \in 1..Len(vs) |->
                [version_num |-> vs[i].version_num,
                 hparams |-> MapRemove(vs[i].hparams, DOMAIN common_params)]]

\* Lines 68-182: what is returned for the sorted list.
StripPhase(cfg, sorted) ==
    IF cfg.main_key.some
    THEN StripByMainKey(sorted, cfg.main_key.val)
    ELSE IF ~cfg.grouping_parameters.some
    THEN [versions |-> StripGlobal(sorted), common |-> EmptyMap]
    ELSE [versions |-> sorted, common |-> EmptyMap]

AfterIngest(cfg, ingested) ==
    IF ~ingested.ok
    THEN [ok |-> FALSE, err |-> ingested.err, result |-> [versions |-> <<>>, common |-> EmptyMap]]
    ELSE [ok |-> TRUE, err |-> None,
          result |-> StripPhase(cfg, SortByVersion(ingested.versions))]

create_version_data_list(cfg, results) == AfterIngest(cfg, IngestLoop(cfg, results, <<>>))

----------------------------------------------------------------------------
(* compute_params_hash *)

\* Every key of the model in lexicographic (byte) order.
KeyOrder == <<"batch_size", "lr", "model">>

KeyRank(k) == CHOOSE i \in 1..Len(KeyOrder) : KeyOrder[i] = k

RECURSIVE InsertKey(_, _)
InsertKey(sorted, k) ==
    IF sorted = <<>> THEN <<k>>
    ELSE IF KeyRank(Head(sorted)) <= KeyRank(k)
         THEN <<Head(sorted)>> \o InsertKey(Tail(sorted), k)
         ELSE <<k>> \o sorted

\* sorted_keys.sort() with the keys left as the map's iteration yields them.
SortedKeys_Unsorted(keys) == keys

\* sorted_keys.sort(), applied to the keys in the order the map's iteration
\* yields them.
RECURSIVE SortedKeys(_)
SortedKeys(keys) ==
    IF keys = <<>> THEN <<>>
    ELSE InsertKey(SortedKeys(SubSeq(keys, 1, Len(keys) - 1)), keys[Len(keys)])

\* The orders in which iterating a HashMap with key set S can yield the keys.
IterationOrders(S) ==
    {order \in [1..Cardinality(S) -> S] :
        \A i, j \in 1..Cardinality(S) : i # j => order[i] # order[j]}

\* One of them, the descending one.
RECURSIVE keys_iter(_)
keys_iter(S) ==
    IF S = {} THEN <<>>
    ELSE LET last == CHOOSE k \in S : \A x \in S : KeyRank(x) <= KeyRank(k)
         IN  <<last>> \o keys_iter(S \ {last})

\* f64::round: to the nearest integer, ties away from zero; n / d with d > 0.
RoundDiv(n, d) ==
    LET a == Abs(n)
        q == (2 * a + d) \div (2 * d)
    IN  IF n < 0 THEN -q ELSE q

\* The eight bytes rounded.to_bits() feeds the hasher, as a token. A zero
\* float_tolerance makes the quotient infinite or NaN and the product NaN.
\* The bits of +0.0 are those of the integer 0 and the bits of -0.0 those of
\* i64::MIN; no other float of the model shares its bits with an integer of
\* the model.
float_bits(value, cfg) ==
    IF value.nan \/ cfg.tolerance.float_tolerance = 0 THEN "w:f64:NaN"
    ELSE IF value.inf THEN "w:f64:inf"
    ELSE LET rounded == RoundDiv(value.v, cfg.tolerance.float_tolerance)
                          * cfg.tolerance.float_tolerance
         IN  IF rounded # 0 THEN "w:f64:" \o ToString(rounded)
             ELSE IF value.v < 0 THEN "w:" \o ToString(I64Min)
             ELSE "w:0"

\* What hash_parameter_value feeds the hasher for one value, as a sequence of
\* tokens, one token per write: "s:" the bytes of a string and its
\* terminator, "w:" eight bytes (an i64, a usize, the bits of an f64), "b:"
\* one byte.
RECURSIVE hash_parameter_value(_, _)
hash_parameter_value(value, cfg) ==
    CASE value.t = "String" ->
            <<"s:" \o (IF cfg.tolerance.string_case_sensitive
                       THEN value.v ELSE to_lowercase(value.v))>>
      [] value.t = "Float" -> <<float_bits(value, cfg)>>
      [] value.t = "Int" ->
            <<"w:" \o ToString(value.v - Rem(value.v, cfg.tolerance.int_tolerance + 1))>>
      [] value.t = "Bool" -> <<IF value.v THEN "b:1" ELSE "b:0">>
      [] value.t = "List" ->
            LET RECURSIVE items(_)
                items(i) == IF i > Len(value.v) THEN <<>>
                            ELSE hash_parameter_value(value.v[i], cfg) \o items(i + 1)
            IN  <<"w:" \o ToString(Len(value.v))>> \o items(1)

\* The parameters compute_params_hash hashes: the allow-listed ones that are
\* present, or all.
params_to_hash(params, cfg) ==
    IF cfg.grouping_parameters.some
    THEN [k \in Range(cfg.grouping_parameters.val) \cap DOMAIN params |-> params[k]]
    ELSE params

\* compute_params_hash when iterating params_to_hash yields its keys in the
\* order `keys`. The hasher (SipHash) is a function of the bytes it is fed
\* and is taken to be injective on them: the hash string is the sequence of
\* tokens itself.
hash_in_order(to_hash, keys, cfg) ==
    LET sorted_keys == SortedKeys(keys)
        RECURSIVE feed(_)
        feed(i) == IF i > Len(sorted_keys) THEN <<>>
                   ELSE <<"s:" \o sorted_keys[i]>>
                          \o hash_parameter_value(to_hash[sorted_keys[i]], cfg)
                          \o feed(i + 1)
    IN  feed(1)

compute_params_hash(params, cfg) ==
    hash_in_order(params_to_hash(params, cfg),
                  keys_iter(DOMAIN params_to_hash(params, cfg)), cfg)

----------------------------------------------------------------------------
(* count_different_parameters, group_versions *)

\* count_different_parameters without the keys only the second map has.
count_different_parameters_OneSided(params1, params2, cfg) ==
    Cardinality({key \in DOMAIN params1 :
                    \/ key \notin DOMAIN params2
                    \/ ~equals_with_tolerance(params1[key], params2[key], cfg.tolerance)})

\* count_different_parameters with the values not compared.
count_different_parameters_KeysOnly(params1, params2, cfg) ==
    Cardinality({key \in DOMAIN params1 : key \notin DOMAIN params2})
      + Cardinality({key \in DOMAIN params2 : key \notin DOMAIN params1})

count_different_parameters(params1, params2, cfg) ==
    Cardinality({key \in DOMAIN params1 :
                    \/ key \notin DOMAIN params2
                    \/ ~equals_with_tolerance(params1[key], params2[key], cfg.tolerance)})
      + Cardinality({key \in DOMAIN params2 : key \notin DOMAIN params1})

\* What count_different_parameters returns in a build with (overflow_checks)
\* or without overflow checks: the loop compares every key the two maps share
\* and has no early exit, so an overflowing comparison panics the call.
count_outcome(params1, params2, cfg, overflow_checks) ==
    IF /\ overflow_checks
       /\ \E key \in DOMAIN params1 \cap DOMAIN params2 :
             equals_panics(params1[key], params2[key], cfg.tolerance)
    THEN [panicked |-> TRUE, value |-> 0]
    ELSE [panicked |-> FALSE, value |-> count_different_parameters(params1, params2, cfg)]

\* can_add_to_group with the allow-listed values compared as well.
can_add_to_group_ByValue(cfg, version, group) ==
    IF cfg.grouping_parameters.some
    THEN \A i \in 1..Len(cfg.grouping_parameters.val) :
            LET param == cfg.grouping_parameters.val[i]
            IN  /\ param \in DOMAIN version.hparams
                /\ param \in DOMAIN group.base_parameters
                /\ equals_with_tolerance(version.hparams[param],
                                         group.base_parameters[param], cfg.tolerance)
    ELSE count_different_parameters(version.hparams, group.base_parameters, cfg) = 0

can_add_to_group(cfg, version, group) ==
    IF cfg.grouping_parameters.some
    THEN \A i \in 1..Len(cfg.grouping_parameters.val) :
            /\ cfg.grouping_parameters.val[i] \in DOMAIN version.hparams
            /\ cfg.grouping_parameters.val[i] \in DOMAIN group.base_parameters
    ELSE count_different_parameters(version.hparams, group.base_parameters, cfg) = 0

\* AssignVersion without the break: the version joins every accepting group.
AssignVersion_AllMatches(cfg, gs, version) ==
    LET accepting == {i \in 1..Len(gs) : can_add_to_group(cfg, version, gs[i])}
    IN  IF accepting # {}
        THEN [i \in 1..Len(gs) |->
                IF i \in accepting
                THEN [gs[i] EXCEPT !.member_versions = Append(@, version)]
                ELSE gs[i]]
        ELSE Append(gs, [group_id |-> compute_params_hash(version.hparams, cfg),
                         base_parameters |-> version.hparams,
                         member_versions |-> <<version>>])

\* AssignVersion scanning the groups from the newest: the last accepting group.
AssignVersion_LastMatch(cfg, gs, version) ==
    LET accepting == {i \in 1..Len(gs) : can_add_to_group(cfg, version, gs[i])}
    IN  IF accepting # {}
        THEN LET last == CHOOSE i \in accepting : \A j \in accepting : i >= j
             IN  [gs EXCEPT ![last].member_versions = Append(@, version)]
        ELSE Append(gs, [group_id |-> compute_params_hash(version.hparams, cfg),
                         base_parameters |-> version.hparams,
                         member_versions |-> <<version>>])

\* AssignVersion passing over the first accepting group when a later one
\* accepts as well.
AssignVersion_SecondMatch(cfg, gs, version) ==
    LET accepting == {i \in 1..Len(gs) : can_add_to_group(cfg, version, gs[i])}
    IN  IF accepting # {}
        THEN LET first == CHOOSE i \in accepting : \A j \in accepting : i <= j
                 later == accepting \ {first}
                 chosen == IF later = {} THEN first
                           ELSE CHOOSE i \in later : \A j \in later : i <= j
             IN  [gs EXCEPT ![chosen].member_versions = Append(@, version)]
        ELSE Append(gs, [group_id |-> compute_params_hash(version.hparams, cfg),
                         base_parameters |-> version.hparams,
                         member_versions |-> <<version>>])

\* AssignVersion with the accepting group re-based on the version that joins.
AssignVersion_Rebase(cfg, gs, version) ==
    LET accepting == {i \in 1..Len(gs) : can_add_to_group(cfg, version, gs[i])}
    IN  IF accepting # {}
        THEN LET first == CHOOSE i \in accepting : \A j \in accepting : i <= j
             IN  [gs EXCEPT ![first].member_versions = Append(@, version),
                            ![first].base_parameters = version.hparams]
        ELSE Append(gs, [group_id |-> compute_params_hash(version.hparams, cfg),
                         base_parameters |-> version.hparams,
                         member_versions |-> <<version>>])

\* One iteration of the while loop, for the version just popped: it joins the
\* first group that accepts it, or founds a new group.
AssignVersion(cfg, gs, version) ==
    LET accepting == {i \in 1..Len(gs) : can_add_to_group(cfg, version, gs[i])}
    IN  IF accepting # {}
        THEN LET first == CHOOSE i \in accepting : \A j \in accepting : i <= j
             IN  [gs EXCEPT ![first].member_versions = Append(@, version)]
        ELSE Append(gs, [group_id |-> compute_params_hash(version.hparams, cfg),
                         base_parameters |-> version.hparams,
                         member_versions |-> <<version>>])

\* groups.sort_by(|a, b| b.len().cmp(&a.len())): stable, longest first.
RECURSIVE InsertBySize(_, _)
InsertBySize(sorted, g) ==
    IF sorted = <<>> THEN <<g>>
    ELSE IF Len(Head(sorted).member_versions) >= Len(g.member_versions)
         THEN <<Head(sorted)>> \o InsertBySize(Tail(sorted), g)
         ELSE <<g>> \o sorted

RECURSIVE SortBySize(_)
SortBySize(gs) ==
    IF gs = <<>> THEN <<>>
    ELSE InsertBySize(SortBySize(SubSeq(gs, 1, Len(gs) - 1)), gs[Len(gs)])

\* SortGroups without the sort of the group list.
SortGroups_MembersOnly(gs) ==
    [i \in 1..Len(gs) |-> [gs[i] EXCEPT !.member_versions = SortByVersion(@)]]

\* The two sorts that end group_versions.
SortGroups(gs) ==
    SortBySize([i \in 1..Len(gs) |->
                  [gs[i] EXCEPT !.member_versions = SortByVersion(@)]])

\* pop taking the first element of the list, not the last.
pop_Front(stack) == [version |-> stack[1], rest |-> SubSeq(stack, 2, Len(stack))]

\* Vec::pop on a non-empty list: the last element, and the list without it.
pop(stack) ==
    [version |-> stack[Len(stack)], rest |-> SubSeq(stack, 1, Len(stack) - 1)]

RECURSIVE GroupAll(_, _, _)
GroupAll(cfg, stack, gs) ==
    IF stack = <<>> THEN gs
    ELSE GroupAll(cfg, pop(stack).rest, AssignVersion(cfg, gs, pop(stack).version))

\* group_versions as a function of its arguments.
group_versions(cfg, vs) == SortGroups(GroupAll(cfg, vs, <<>>))

----------------------------------------------------------------------------
(* find_similar_groups *)

\* The inner loop for groups[i]: the ids it pushes, in the order of j.
RECURSIVE similar_ids(_, _, _, _)
similar_ids(gs, i, j, cfg) ==
    IF j > Len(gs) THEN <<>>
    ELSE (IF i # j /\ count_different_parameters(gs[i].base_parameters,
                                                 gs[j].base_parameters, cfg)
                        <= cfg.similarity_threshold
          THEN <<gs[j].group_id>>
          ELSE <<>>)
         \o similar_ids(gs, i, j + 1, cfg)

\* The outer loop from groups[i] on: the entry of groups[i].group_id is
\* created if it is not there, and the ids of the inner loop are pushed to it.
RECURSIVE similar_from(_, _, _, _)
similar_from(gs, i, cfg, acc) ==
    IF i > Len(gs) THEN acc
    ELSE LET group_id == gs[i].group_id
             entry == IF group_id \in DOMAIN acc THEN acc[group_id] ELSE <<>>
         IN  similar_from(gs, i + 1, cfg,
                          MapInsert(acc, group_id, entry \o similar_ids(gs, i, 1, cfg)))

find_similar_groups(gs, cfg) == similar_from(gs, 1, cfg, EmptyMap)

----------------------------------------------------------------------------
(* Inputs *)

\* Every mapping that gives some of the keys of D a value of that key's set.
MapsOver(D) ==
    UNION {{m \in [S -> UNION {D[k] : k \in S}] : \A k \in S : m[k] \in D[k]}
              : S \in SUBSET DOMAIN D}

\* Every sequence of at most MaxRecords elements of U.
ListsOf(U) == UNION {[1..n -> U] : n \in 0..MaxRecords}

\* similarity_threshold of the test configuration.
TestSimilarityThreshold == 2

MkConfig(ignored, allow, main, tol) ==
    [ignored_parameters |-> ignored,
     grouping_parameters |-> allow,
     main_key |-> main,
     tolerance |-> tol,
     similarity_threshold |-> TestSimilarityThreshold]

\* tolerance of the test configuration: float_tolerance 0.001, int_tolerance 0.
TestTolerance ==
    [float_tolerance |-> 10000, int_tolerance |-> 0, string_case_sensitive |-> FALSE]

\* Raw attribute mappings of the ingestion runs; NaN is a value YAML can carry.
RawHParams ==
    MapsOver([model |-> {PString("cnn"), PString("rnn")},
              batch_size |-> {PInt(32)},
              lr |-> {PFloat(10000), PNaN}])

\* The version numbers of n files in file order: ascending, and for short
\* lists descending as well.
VersionOrders(n) ==
    {[i \in 1..n |-> i]} \cup (IF n <= 2 THEN {[i \in 1..n |-> n + 1 - i]} ELSE {})

ParsedResults ==
    {[i \in 1..Len(hp) |-> [version_num |-> order[i], hparams |-> hp[i]]]
        : <<hp, order>> \in UNION {{<<h, o>> : o \in VersionOrders(Len(h))}
                                      : h \in ListsOf(RawHParams)}}

\* ignore-list, allow-list and main_key of the ingestion runs: each setting
\* of allow-list and main_key with nothing ignored, and the ignore-list that
\* names a main key, an allow-listed key.
PipelineConfigs ==
    {MkConfig(<<>>, allow, main, TestTolerance)
        : <<allow, main>> \in
            {None, Some(<<"lr", "model", "lr">>)}
              \X {None, Some(<<"model">>), Some(<<"batch_size", "model">>)}}
      \cup {MkConfig(<<"model">>, allow, main, TestTolerance)
              : <<allow, main>> \in {<<None, None>>,
                                     <<Some(<<"lr", "model", "lr">>), None>>,
                                     <<None, Some(<<"model">>)>>}}

\* Scenario A of the specification: model=cnn, batch_size=32 and lr 0.001,
\* 0.01, 0.1, no main key, no allow-list.
ScenarioAConfig == MkConfig(<<>>, None, None, TestTolerance)

ScenarioARecord(v, lr) ==
    [version_num |-> v,
     hparams |-> [model |-> PString("cnn"), batch_size |-> PInt(32), lr |-> PFloat(lr)]]

ScenarioAResults ==
    <<ScenarioARecord(1, 10000), ScenarioARecord(2, 100000), ScenarioARecord(3, 1000000)>>

----------------------------------------------------------------------------
(* The program: create_version_data_list, then group_versions (main.rs) *)

Init ==
    /\ \/ config = ScenarioAConfig /\ parsed_results = ScenarioAResults
       \/ config \in PipelineConfigs /\ parsed_results \in ParsedResults
    /\ pc = "start"
    /\ versions = <<>>
    /\ group_common_hparams = EmptyMap
    /\ error = None
    /\ ungrouped_versions = <<>>
    /\ groups = <<>>
    /\ similar_groups = EmptyMap
    /\ call_args = <<>>
    /\ call_result = <<>>
    /\ tui = NoTui

CreateVersionDataList ==
    /\ pc = "start"
    /\ \E r \in {create_version_data_list(config, parsed_results)} :
          \/ /\ r.ok
             /\ versions' = r.result.versions
             /\ group_common_hparams' = r.result.common
             /\ pc' = "listed"
             /\ UNCHANGED error
          \/ /\ ~r.ok
             /\ error' = r.err
             /\ pc' = "failed"
             /\ UNCHANGED <<versions, group_common_hparams>>
    /\ UNCHANGED <<tui, config, parsed_results, ungrouped_versions, groups, similar_groups, call>>

\* group_versions, entry: the stack is a clone of the argument.
GroupVersionsBegin ==
    /\ pc = "listed"
    /\ ungrouped_versions' = versions
    /\ groups' = <<>>
    /\ pc' = "grouping"
    /\ UNCHANGED <<tui, config, parsed_results, versions, group_common_hparams, error,
                   similar_groups, call>>

\* group_versions, one iteration of the while loop.
GroupVersionsPop ==
    /\ pc = "grouping"
    /\ ungrouped_versions # <<>>
    /\ \E popped \in {pop(ungrouped_versions)} :
          /\ ungrouped_versions' = popped.rest
          /\ groups' = AssignVersion(config, groups, popped.version)
    /\ UNCHANGED <<tui, config, parsed_results, pc, versions, group_common_hparams, error,
                   similar_groups, call>>

\* group_versions, after the loop: the two sorts and the return.
GroupVersionsReturn ==
    /\ pc = "grouping"
    /\ ungrouped_versions = <<>>
    /\ groups' = SortGroups(groups)
    /\ pc' = "grouped"
    /\ UNCHANGED <<tui, config, parsed_results, versions, group_common_hparams, error,
                   ungrouped_versions, similar_groups, call>>

Next ==
    \/ CreateVersionDataList
    \/ GroupVersionsBegin
    \/ GroupVersionsPop
    \/ GroupVersionsReturn

Spec == Init /\ [][Next]_vars

----------------------------------------------------------------------------
(* group_versions on arbitrary arguments *)

\* Integer and string attributes, under every int_tolerance and both string
\* modes, and under an allow-list.
IntVersions ==
    {[i \in 1..Len(hp) |-> [version_num |-> i, hparams |-> hp[i]]]
        : hp \in ListsOf(MapsOver([batch_size |-> {PInt(n) : n \in 0..MaxInt},
                                   model |-> {PString("cnn"), PString("CNN")}]))}

IntConfigs ==
    {MkConfig(<<>>, None,  None,
              [float_tolerance |-> 10000, int_tolerance |-> it,
               string_case_sensitive |-> cs])
        : <<it, cs>> \in (0..MaxTol) \X BOOLEAN}
      \cup {MkConfig(<<>>, Some(allow), None, TestTolerance)
              : allow \in {<<"batch_size">>, <<"batch_size", "model">>}}

\* Float attributes 0.000, 0.001, ... and NaN, under every float_tolerance.
FloatVersions ==
    {[i \in 1..Len(hp) |-> [version_num |-> order[i], hparams |-> hp[i]]]
        : <<hp, order>> \in
            UNION {{<<h, o>> : o \in VersionOrders(Len(h))}
                      : h \in ListsOf(MapsOver(
                                [lr |-> {PFloat(10000 * n) : n \in 0..MaxInt}
                                           \cup {PNaN}]))}}

FloatConfigs ==
    {MkConfig(<<>>, None,  None,
              [float_tolerance |-> 10000 * ft, int_tolerance |-> 0,
               string_case_sensitive |-> FALSE])
        : ft \in 0..MaxTol}

InitGroup ==
    /\ \/ config \in IntConfigs /\ versions \in IntVersions
       \/ config \in FloatConfigs /\ versions \in FloatVersions
    /\ pc = "listed"
    /\ parsed_results = <<>>
    /\ group_common_hparams = EmptyMap
    /\ error = None
    /\ ungrouped_versions = <<>>
    /\ groups = <<>>
    /\ similar_groups = EmptyMap
    /\ call_args = <<>>
    /\ call_result = <<>>
    /\ tui = NoTui

NextGroup ==
    \/ GroupVersionsBegin
    \/ GroupVersionsPop
    \/ GroupVersionsReturn

SpecGroup == InitGroup /\ [][NextGroup]_vars

----------------------------------------------------------------------------
(* group_versions, then find_similar_groups (main.rs) *)

\* Integers on both sides of zero, a finite and an infinite float, a string;
\* every key optional.
SimilarVersions ==
    {[i \in 1..Len(hp) |-> [version_num |-> i, hparams |-> hp[i]]]
        : hp \in ListsOf(MapsOver([batch_size |-> {PInt(-1), PInt(1)},
                                   lr |-> {PFloat(10000), PInf},
                                   model |-> {PString("cnn")}]))}

\* int_tolerance 0 and 1, without and with an allow-list, similarity_threshold
\* from 0 to MaxThreshold.
SimilarConfigs ==
    {[MkConfig(<<>>, allow, None,
               [float_tolerance |-> 10000, int_tolerance |-> it,
                string_case_sensitive |-> FALSE])
        EXCEPT !.similarity_threshold = th]
        : <<allow, it, th>> \in {None, Some(<<"batch_size", "model">>)}
                                  \X (0..1) \X (0..MaxThreshold)}

InitSimilar ==
    /\ config \in SimilarConfigs
    /\ versions \in SimilarVersions
    /\ pc = "listed"
    /\ parsed_results = <<>>
    /\ group_common_hparams = EmptyMap
    /\ error = None
    /\ ungrouped_versions = <<>>
    /\ groups = <<>>
    /\ similar_groups = EmptyMap
    /\ call_args = <<>>
    /\ call_result = <<>>
    /\ tui = NoTui

FindSimilarGroups ==
    /\ pc = "grouped"
    /\ similar_groups' = find_similar_groups(groups, config)
    /\ pc' = "similar"
    /\ UNCHANGED <<tui, config, parsed_results, versions, group_common_hparams, error,
                   ungrouped_versions, groups, call>>

NextSimilar ==
    \/ GroupVersionsBegin
    \/ GroupVersionsPop
    \/ GroupVersionsReturn
    \/ FindSimilarGroups

SpecSimilar == InitSimilar /\ [][NextSimilar]_vars

----------------------------------------------------------------------------
(* equals_with_tolerance and compute_params_hash called on their own *)

BasicValues ==
    {PString(x) : x \in {"cnn", "CNN", "rnn"}}
      \cup {PInt(n) : n \in {I64Min, -1, 0, 1, I64Max}}
      \cup {PBool(b) : b \in BOOLEAN}
      \cup {PFloat(0), PFloat(10000), PNaN, PInf}

\* The elements of the lists: one value of each kind, and the largest integer.
ListItems == {PString("cnn"), PInt(-1), PInt(I64Max), PBool(TRUE), PInf}

ListValues == {PList(l) : l \in UNION {[1..n -> ListItems] : n \in 0..MaxListLen}}

Tolerances ==
    [float_tolerance : {10000}, int_tolerance : 0..MaxTol,
     string_case_sensitive : BOOLEAN]

EqualsCalls ==
    [fn : {"equals_with_tolerance"}, a : BasicValues \cup ListValues,
     b : BasicValues \cup ListValues, tolerance : Tolerances]

\* Integer, string and boolean attributes, the integers on both sides of zero.
HashParams ==
    MapsOver([batch_size |-> {PInt(n) : n \in (-MaxTol)..MaxTol},
              model |-> {PString("cnn"), PString("CNN"), PString("rnn")},
              lr |-> {PBool(TRUE), PBool(FALSE)}])

HashConfigs ==
    {MkConfig(<<>>, allow, None, tol)
        : <<allow, tol>> \in {None, Some(<<"model", "batch_size">>)} \X Tolerances}

\* keys: the order in which iterating params_to_hash yields its keys.
HashCalls ==
    UNION {{[fn |-> "compute_params_hash", params |-> c[1], cfg |-> c[2], keys |-> order]
              : order \in IterationOrders(DOMAIN params_to_hash(c[1], c[2]))}
             : c \in HashParams \X HashConfigs}

InitValues ==
    /\ call_args \in EqualsCalls \cup HashCalls
    /\ call_result = <<>>
    /\ tui = NoTui
    /\ pc = "call"
    /\ config = ScenarioAConfig
    /\ parsed_results = <<>>
    /\ versions = <<>>
    /\ group_common_hparams = EmptyMap
    /\ error = None
    /\ ungrouped_versions = <<>>
    /\ groups = <<>>
    /\ similar_groups = EmptyMap

\* a.equals_with_tolerance(b), b.equals_with_tolerance(a) and
\* a.equals_with_tolerance(a) in one build.
EqualsWithTolerance ==
    /\ pc = "call"
    /\ call_args.fn = "equals_with_tolerance"
    /\ \E overflow_checks \in BOOLEAN :
          LET a == call_args.a
              b == call_args.b
              tolerance == call_args.tolerance
          IN  call_result' = [ab |-> equals_outcome(a, b, tolerance, overflow_checks),
                              ba |-> equals_outcome(b, a, tolerance, overflow_checks),
                              aa |-> equals_outcome(a, a, tolerance, overflow_checks)]
    /\ pc' = "returned"
    /\ UNCHANGED <<tui, config, parsed_results, versions, group_common_hparams, error,
                   ungrouped_versions, groups, similar_groups, call_args>>

ComputeParamsHash ==
    /\ pc = "call"
    /\ call_args.fn = "compute_params_hash"
    /\ call_result' = hash_in_order(params_to_hash(call_args.params, call_args.cfg),
                                    call_args.keys, call_args.cfg)
    /\ pc' = "returned"
    /\ UNCHANGED <<tui, config, parsed_results, versions, group_common_hparams, error,
                   ungrouped_versions, groups, similar_groups, call_args>>

NextValues ==
    \/ EqualsWithTolerance
    \/ ComputeParamsHash

SpecValues == InitValues /\ [][NextValues]_vars

----------------------------------------------------------------------------
(* flatten_yaml_value called on its own *)

YLeafs == {YNull, YString("x"), YInt(1), YFloat(PFloat(15000000)), YBool(TRUE)}

YSmallLeafs == {YNull, YInt(1), YString("x")}

\* The sequences of at most MaxListLen distinct-keyed entries over the keys K
\* and the values V, in every document order.
YMapsOver(K, V) ==
    {YMap(entries) :
        entries \in {e \in UNION {[1..n -> K \X V] : n \in 0..MaxListLen} :
                        \A i, j \in 1..Len(e) : i # j => e[i][1] # e[j][1]}}

YInnerMaps == YMapsOver({YString("b"), YString("c")}, YSmallLeafs)

\* Elements of sequences: leaves, a null, a sequence and a mapping.
YSeqItems ==
    YSmallLeafs \cup {YSeq(<<YInt(1)>>), YMap(<<<<YString("b"), YInt(1)>>>>)}

YSeqs == {YSeq(items) : items \in UNION {[1..n -> YSeqItems] : n \in 0..MaxListLen}}

\* Documents: a mapping whose keys include "a-b", the join of "a" and "b", and
\* a key that is not a string.
YDocuments ==
    YMapsOver({YString("a"), YString("a-b"), YInt(1)},
              YLeafs \cup YInnerMaps \cup YSeqs \cup {YTagged(YString("x"))})

\* parse_hparams_file flattens a document at the empty path; a sequence is
\* flattened at the path of its parent.
FlattenCalls ==
    [fn : {"flatten_yaml_value"}, value : YDocuments, path : {""}]
      \cup [fn : {"flatten_yaml_value"}, value : YSeqs, path : {"", "a"}]

InitFlatten ==
    /\ call_args \in FlattenCalls
    /\ call_result = <<>>
    /\ tui = NoTui
    /\ pc = "call"
    /\ config = ScenarioAConfig
    /\ parsed_results = <<>>
    /\ versions = <<>>
    /\ group_common_hparams = EmptyMap
    /\ error = None
    /\ ungrouped_versions = <<>>
    /\ groups = <<>>
    /\ similar_groups = EmptyMap

FlattenYamlValue ==
    /\ pc = "call"
    /\ call_args.fn = "flatten_yaml_value"
    /\ call_result' = flatten_yaml_value(call_args.value, EmptyMap, call_args.path)
    /\ pc' = "returned"
    /\ UNCHANGED <<tui, config, parsed_results, versions, group_common_hparams, error,
                   ungrouped_versions, groups, similar_groups, call_args>>

NextFlatten == FlattenYamlValue

SpecFlatten == InitFlatten /\ [][NextFlatten]_vars

----------------------------------------------------------------------------
(* count_different_parameters called on its own, next to find_similar_groups *)

\* Mappings with the extreme integers, an infinite float and a NaN, strings
\* that differ in case, and a key whose value changes variant.
CountParams ==
    MapsOver([batch_size |-> {PInt(I64Min), PInt(-1), PInt(1), PInt(I64Max)},
              lr |-> {PFloat(10000), PInf, PNaN},
              model |-> {PString("cnn"), PString("CNN"), PInt(1)}])

CountCalls ==
    [fn : {"count_different_parameters"}, params1 : CountParams, params2 : CountParams,
     cfg : {MkConfig(<<>>, None, None, tolerance) : tolerance \in Tolerances}]

InitCountCall ==
    /\ call_args \in CountCalls
    /\ call_result = <<>>
    /\ tui = NoTui
    /\ pc = "call"
    /\ config = ScenarioAConfig
    /\ parsed_results = <<>>
    /\ versions = <<>>
    /\ group_common_hparams = EmptyMap
    /\ error = None
    /\ ungrouped_versions = <<>>
    /\ groups = <<>>
    /\ similar_groups = EmptyMap

\* count_different_parameters(params1, params2) and
\* count_different_parameters(params2, params1) in one build.
CountDifferentParameters ==
    /\ pc = "call"
    /\ call_args.fn = "count_different_parameters"
    /\ \E overflow_checks \in BOOLEAN :
          call_result' =
              [ab |-> count_outcome(call_args.params1, call_args.params2,
                                    call_args.cfg, overflow_checks),
               ba |-> count_outcome(call_args.params2, call_args.params1,
                                    call_args.cfg, overflow_checks)]
    /\ pc' = "returned"
    /\ UNCHANGED <<tui, config, parsed_results, versions, group_common_hparams, error,
                   ungrouped_versions, groups, similar_groups, call_args>>

NextCount ==
    \/ GroupVersionsBegin
    \/ GroupVersionsPop
    \/ GroupVersionsReturn
    \/ FindSimilarGroups
    \/ CountDifferentParameters

SpecCount == (InitSimilar \/ InitCountCall) /\ [][NextCount]_vars

----------------------------------------------------------------------------
(* parse_multiple_hparams_files, then the rest of create_version_data_list *)

\* Documents of hparams files: two that flatten, two with a key that is not a
\* string (at the top after a good entry, and nested), an empty document, and
\* one without the main key.
FileDocuments ==
    {YMap(<<<<YString("model"), YString("cnn")>>, <<YString("lr"), YFloat(PFloat(10000))>>>>),
     YMap(<<<<YString("model"), YString("cnn")>>, <<YString("lr"), YFloat(PFloat(100000))>>>>),
     YMap(<<<<YString("model"), YString("cnn")>>, <<YInt(1), YString("x")>>>>),
     YMap(<<<<YString("lr"), YMap(<<<<YInt(1), YString("x")>>>>)>>,
            <<YString("model"), YString("cnn")>>>>),
     YNull,
     YMap(<<<<YString("lr"), YFloat(PFloat(10000))>>>>)}

HparamsFiles ==
    {[i \in 1..Len(docs) |-> [version_num |-> i, yaml_value |-> docs[i]]]
        : docs \in ListsOf(FileDocuments)}

ParseConfigs ==
    {ScenarioAConfig,
     MkConfig(<<>>, None, Some(<<"model">>), TestTolerance),
     MkConfig(<<>>, Some(<<"lr", "model">>), None, TestTolerance)}

InitParse ==
    /\ config \in ParseConfigs
    /\ call_args \in [fn : {"parse_multiple_hparams_files"}, file_paths : HparamsFiles]
    /\ call_result = <<>>
    /\ tui = NoTui
    /\ pc = "files"
    /\ parsed_results = <<>>
    /\ versions = <<>>
    /\ group_common_hparams = EmptyMap
    /\ error = None
    /\ ungrouped_versions = <<>>
    /\ groups = <<>>
    /\ similar_groups = EmptyMap

\* create_version_data_list, line 30.
ParseMultipleHparamsFiles ==
    /\ pc = "files"
    /\ parsed_results' = parse_multiple_hparams_files(call_args.file_paths)
    /\ pc' = "start"
    /\ UNCHANGED <<tui, config, versions, group_common_hparams, error, ungrouped_versions,
                   groups, similar_groups, call>>

NextParse ==
    \/ ParseMultipleHparamsFiles
    \/ CreateVersionDataList

SpecParse == InitParse /\ [][NextParse]_vars

----------------------------------------------------------------------------
(* The terminal interface: TuiApp::run, Renderer::draw (src/src/tui) *)

\* App::build_version_content: the version line, a blank line and the
\* heading precede the parameters of every version.
MinLines == 3

\* usize::saturating_sub, usize::saturating_add.
saturating_sub(a, b) == IF a < b THEN 0 ELSE a - b

saturating_add(a, b) == IF a + b > 2 ^ UsizeBits - 1 THEN 2 ^ UsizeBits - 1 ELSE a + b

Min(a, b) == IF a <= b THEN a ELSE b

\* App::update_detail_content_cache: the content of the selected version (one
\* line when there is none), its version, and the scroll offset reset. lens
\* gives the number of content lines of each version; positions count from 0.
update_detail_content_cache(app, lens) ==
    IF app.selected_version_index < Len(lens)
    THEN [app EXCEPT !.detail_content_len = lens[app.selected_version_index + 1],
                     !.detail_content_version = Some(app.selected_version_index),
                     !.detail_scroll_offset = 0]
    ELSE [app EXCEPT !.detail_content_len = 1,
                     !.detail_content_version = None,
                     !.detail_scroll_offset = 0]

\* App::smart_update_detail_content_cache: only when the selection changed.
smart_update_detail_content_cache(app, lens) ==
    IF (IF app.selected_version_index < Len(lens)
        THEN Some(app.selected_version_index) ELSE None) # app.detail_content_version
    THEN update_detail_content_cache(app, lens)
    ELSE app

\* Renderer::draw_version_list: the movement actions, with cols columns.
draw_version_list(app, n, cols) ==
    IF n = 0 THEN app
    ELSE CASE app.last_user_action \in {"MoveUp", "MoveLeft"} ->
                LET step == IF app.last_user_action = "MoveUp" THEN cols ELSE 1
                IN  IF app.selected_version_index # 0
                    THEN [app EXCEPT !.selected_version_index = saturating_sub(@, step),
                                     !.detail_scroll_offset = 0,
                                     !.last_user_action = "None"]
                    ELSE [app EXCEPT !.last_user_action = "None"]
           [] app.last_user_action \in {"MoveDown", "MoveRight"} ->
                LET step == IF app.last_user_action = "MoveDown" THEN cols ELSE 1
                IN  IF app.selected_version_index # n - 1
                    THEN [app EXCEPT !.selected_version_index =
                                         Min(saturating_add(@, step), n - 1),
                                     !.detail_scroll_offset = 0,
                                     !.last_user_action = "None"]
                    ELSE [app EXCEPT !.last_user_action = "None"]
           [] OTHER -> app

\* Renderer::draw_version_details after the cache update, lines 247-261, in a
\* panel of area_height rows: content.len() - area.height is computed for a
\* scroll down and for the percentage, and panics with overflow checks when
\* the content is shorter than the panel, and wraps without them.
scroll_details(app, area_height, overflow_checks) ==
    IF overflow_checks /\ app.detail_content_len < area_height
    THEN [panicked |-> TRUE, app |-> app]
    ELSE [panicked |-> FALSE,
          app |->
            CASE app.last_user_action = "ScrollDetailUp" ->
                    [app EXCEPT !.detail_scroll_offset = saturating_sub(@, 1),
                                !.last_user_action = "None"]
              [] app.last_user_action = "ScrollDetailDown" ->
                    [app EXCEPT !.detail_scroll_offset =
                                    Min(saturating_add(@, 1),
                                        (app.detail_content_len - area_height
                                            + 2 ^ UsizeBits) % (2 ^ UsizeBits)),
                                !.last_user_action = "None"]
              [] OTHER -> app]

\* Renderer::draw: the version list, then the details. The scroll offset of
\* the list itself is left out.
draw(app, lens, area_height, cols, overflow_checks) ==
    scroll_details(
        smart_update_detail_content_cache(draw_version_list(app, Len(lens), cols), lens),
        area_height, overflow_checks)

\* App::new on the versions of a run, whose content lengths are lens, in a
\* build with or without overflow checks.
InitTui ==
    /\ \E lens \in ListsOf(MinLines..MaxLines), overflow_checks \in BOOLEAN :
          tui = [app |-> update_detail_content_cache(
                             [selected_version_index |-> 0, last_user_action |-> "None",
                              should_quit |-> FALSE, detail_content_len |-> 0,
                              detail_content_version |-> None,
                              detail_scroll_offset |-> 0],
                             lens),
                 lens |-> lens, overflow_checks |-> overflow_checks,
                 area_height |-> 0, panicked |-> FALSE]
    /\ pc = "draw"
    /\ config = ScenarioAConfig
    /\ parsed_results = <<>>
    /\ versions = <<>>
    /\ group_common_hparams = EmptyMap
    /\ error = None
    /\ ungrouped_versions = <<>>
    /\ groups = <<>>
    /\ similar_groups = EmptyMap
    /\ call_args = <<>>
    /\ call_result = <<>>

\* terminal.draw: the panel height and the columns are those of the terminal
\* at that moment.
Draw ==
    /\ pc = "draw"
    /\ \E area_height \in 0..MaxHeight, cols \in 1..MaxCols :
          \E r \in {draw(tui.app, tui.lens, area_height, cols, tui.overflow_checks)} :
              /\ tui' = [tui EXCEPT !.app = r.app, !.area_height = area_height,
                                    !.panicked = r.panicked]
              /\ pc' = IF r.panicked THEN "panicked" ELSE "event"
    /\ UNCHANGED <<config, parsed_results, versions, group_common_hparams, error,
                   ungrouped_versions, groups, similar_groups, call>>

\* Event::Input: Quit ends the loop, any other action is left for the next
\* draw. Help stands for the actions the renderer ignores.
KeyEvent ==
    /\ pc = "event"
    /\ \E action \in {"Quit", "MoveUp", "MoveDown", "MoveLeft", "MoveRight",
                       "ScrollDetailUp", "ScrollDetailDown", "Help", "None"} :
          IF action = "Quit"
          THEN /\ tui' = [tui EXCEPT !.app.should_quit = TRUE]
               /\ pc' = "quit"
          ELSE /\ tui' = [tui EXCEPT !.app.last_user_action = action]
               /\ pc' = "draw"
    /\ UNCHANGED <<config, parsed_results, versions, group_common_hparams, error,
                   ungrouped_versions, groups, similar_groups, call>>

\* Event::Tick.
Tick ==
    /\ pc = "event"
    /\ pc' = "draw"
    /\ UNCHANGED <<tui, config, parsed_results, versions, group_common_hparams, error,
                   ungrouped_versions, groups, similar_groups, call>>

NextTui ==
    \/ Draw
    \/ KeyEvent
    \/ Tick

SpecTui == InitTui /\ [][NextTui]_vars

----------------------------------------------------------------------------
(* Properties *)

AllKeys == Range(KeyOrder)

\* create_version_data_list has returned Ok.
Listed == pc \in {"listed", "grouping", "grouped"}

\* The parsed record a returned version was made from (version numbers are
\* distinct), and its attribute mapping as the filter left it.
RawOf(version) ==
    (CHOOSE file \in Range(parsed_results) : file.version_num = version.version_num).hparams

Filtered(version) ==
    filter_parameters(RawOf(version), config.ignored_parameters, config.grouping_parameters)

\* The positions of the returned list whose filtered mapping yields bucket key g.
BucketMembers(g) ==
    {i \in 1..Len(versions) :
        GroupKey(Filtered(versions[i]), config.main_key.val) = Some(g)}

BucketKeys ==
    {GroupKey(Filtered(versions[i]), config.main_key.val).val
        : i \in {j \in 1..Len(versions) :
                    GroupKey(Filtered(versions[j]), config.main_key.val).some}}

\* The keys outside `excluded` that every listed position has after the filter,
\* with values that are equal (==) between any two of them.
ExactlyCommon(members, excluded) ==
    {k \in AllKeys \ excluded :
        /\ \A i \in members : k \in DOMAIN Filtered(versions[i])
        /\ \A i, j \in members :
              i # j => pv_eq(Filtered(versions[i])[k], Filtered(versions[j])[k])}

\* The groups that have version v among their members, as <<group, position>>.
Memberships(v) ==
    {<<g, m>> \in (1..Len(groups)) \X (1..MaxRecords + 1) :
        m <= Len(groups[g].member_versions) /\ groups[g].member_versions[m] = v}

\* C1. Total membership: when group_versions returns, every input record is a
\* member of exactly one group, every member of a group is an input record,
\* and no group is empty.
C1_TotalMembership ==
    pc = "grouped" =>
        /\ \A i \in 1..Len(versions) : Cardinality(Memberships(versions[i])) = 1
        /\ \A g \in 1..Len(groups) :
              /\ groups[g].member_versions # <<>>
              /\ Range(groups[g].member_versions) \subseteq Range(versions)

C1_Witness ==
    /\ pc = "grouped"
    /\ Len(versions) = 3
    /\ Len(groups) = 2
    /\ Len(groups[1].member_versions) = 2

\* C2. A missing main key is batch-fatal: when main_key is configured and some
\* ingested record lacks a main-key attribute, create_version_data_list returns
\* an error naming the version number of a record and a main key that record
\* lacks, and neither a record list nor a Common-Attributes Table.
C2_MissingMainKeyFatal ==
    (/\ pc # "start"
     /\ config.main_key.some
     /\ \E file \in Range(parsed_results) :
           ~(Range(config.main_key.val) \subseteq DOMAIN file.hparams))
    => /\ pc = "failed"
       /\ error.some
       /\ \E file \in Range(parsed_results) :
             /\ error.val.version_num = file.version_num
             /\ error.val.main_key \in Range(config.main_key.val)
             /\ error.val.main_key \notin DOMAIN file.hparams
       /\ versions = <<>>
       /\ group_common_hparams = EmptyMap

\* The batch fails on its last record, after two records that have every main key.
C2_Witness ==
    /\ pc = "failed"
    /\ Len(parsed_results) = 3
    /\ \A i \in 1..2 : Range(config.main_key.val) \subseteq DOMAIN parsed_results[i].hparams
    /\ error.val.version_num = parsed_results[3].version_num

\* C3. Common-attribute correctness: for every main-key bucket with more than
\* one member, the keys recorded under the bucket's key are exactly the
\* non-main-key attributes all members have with equal value; exactly those keys
\* were stripped from each member, the rest is unchanged, and every member still
\* has every main key.
C3_CommonAttributeCorrectness ==
    (Listed /\ config.main_key.some) =>
        \A g \in BucketKeys :
            Cardinality(BucketMembers(g)) > 1 =>
                LET common == ExactlyCommon(BucketMembers(g), Range(config.main_key.val))
                IN  /\ g \in DOMAIN group_common_hparams
                    /\ DOMAIN group_common_hparams[g] = common
                    /\ \A i \in BucketMembers(g) :
                          /\ versions[i].hparams = MapRemove(Filtered(versions[i]), common)
                          /\ \A k \in common :
                                pv_eq(group_common_hparams[g][k], Filtered(versions[i])[k])
                          /\ Range(config.main_key.val) \subseteq DOMAIN versions[i].hparams

\* A bucket of three that shares batch_size, and has lr in every member but
\* not with one value.
C3_Witness ==
    /\ Listed
    /\ config.main_key.some
    /\ \E g \in BucketKeys :
          /\ Cardinality(BucketMembers(g)) = 3
          /\ DOMAIN group_common_hparams[g] = {"batch_size"}
          /\ \A i \in BucketMembers(g) : "lr" \in DOMAIN versions[i].hparams

\* C4. With main_key configured, the only member of a bucket keeps exactly its
\* filtered mapping, and the Common-Attributes Table has an entry for a bucket
\* key if and only if the bucket has more than one member.
C4_SingletonBucketUntouched ==
    (Listed /\ config.main_key.some) =>
        /\ \A g \in BucketKeys :
              Cardinality(BucketMembers(g)) = 1 =>
                  \A i \in BucketMembers(g) : versions[i].hparams = Filtered(versions[i])
        /\ DOMAIN group_common_hparams =
              {g \in BucketKeys : Cardinality(BucketMembers(g)) > 1}

\* A bucket of one whose member has an attribute that is not a main key, next
\* to a bucket of two.
C4_Witness ==
    /\ Listed
    /\ config.main_key.some
    /\ \E g \in BucketKeys :
          /\ Cardinality(BucketMembers(g)) = 1
          /\ \E i \in BucketMembers(g) :
                DOMAIN versions[i].hparams \ Range(config.main_key.val) # {}
    /\ group_common_hparams # EmptyMap

\* C5. Global stripping: with neither main_key nor allow-list, the keys taken
\* out of every record are exactly the keys all records have with equal value,
\* and every other key of every record keeps its value.
C5_GlobalStripping ==
    (Listed /\ ~config.main_key.some /\ ~config.grouping_parameters.some) =>
        LET common == ExactlyCommon(1..Len(versions), {})
        IN  \A i \in 1..Len(versions) :
                versions[i].hparams = MapRemove(Filtered(versions[i]), common)

\* Three records that share batch_size and all have lr, not with one value.
C5_Witness ==
    /\ Listed
    /\ ~config.main_key.some
    /\ ~config.grouping_parameters.some
    /\ Len(versions) = 3
    /\ \A i \in 1..3 : /\ "batch_size" \in DOMAIN Filtered(versions[i])
                       /\ DOMAIN versions[i].hparams = {"lr"}

\* C6. With an allow-list configured nothing is stripped: every returned record
\* has exactly the mapping the filter produced.
C6_AllowListNoStripping ==
    (Listed /\ config.grouping_parameters.some) =>
        \A i \in 1..Len(versions) : versions[i].hparams = Filtered(versions[i])

\* C7. Filter contract: with an allow-list the filter keeps exactly the keys
\* that are allow-listed, present and not ignored; without one, exactly the
\* present keys that are not ignored; a kept key keeps its value.
C7_FilterContract ==
    pc # "start" =>
        \A n \in 1..Len(parsed_results) :
            LET hparams == parsed_results[n].hparams
                filtered == filter_parameters(hparams, config.ignored_parameters,
                                              config.grouping_parameters)
                allowed == IF config.grouping_parameters.some
                           THEN Range(config.grouping_parameters.val) \cap DOMAIN hparams
                           ELSE DOMAIN hparams
            IN  /\ DOMAIN filtered = allowed \ Range(config.ignored_parameters)
                /\ \A k \in DOMAIN filtered : filtered[k] = hparams[k]

\* A record with all three keys, of which the allow-list leaves two and the
\* ignore-list takes one of those.
C7_Witness ==
    /\ pc = "listed"
    /\ config.grouping_parameters.some
    /\ config.ignored_parameters = <<"model">>
    /\ \E i \in 1..Len(versions) :
          /\ DOMAIN RawOf(versions[i]) = AllKeys
          /\ DOMAIN versions[i].hparams = {"lr"}

\* C8. With an allow-list, when every record given to group_versions has every
\* allow-listed attribute, all records end in one group whatever the values.
C8_AllowListOneGroup ==
    (/\ pc = "grouped"
     /\ config.grouping_parameters.some
     /\ \A i \in 1..Len(versions) :
           Range(config.grouping_parameters.val) \subseteq DOMAIN versions[i].hparams)
    => /\ Len(groups) <= 1
       /\ versions # <<>> => /\ Len(groups) = 1
                             /\ Len(groups[1].member_versions) = Len(versions)

\* Three records with three batch_size values, all allow-listed keys present.
C8_Witness ==
    /\ pc = "grouped"
    /\ config.grouping_parameters = Some(<<"batch_size", "model">>)
    /\ Len(versions) = 3
    /\ \A i \in 1..3 : DOMAIN versions[i].hparams = {"batch_size", "model"}
    /\ Cardinality({versions[i].hparams["batch_size"] : i \in 1..3}) = 3
    /\ Len(groups) = 1

ScenarioA == config = ScenarioAConfig /\ parsed_results = ScenarioAResults

\* C9 as claimed. Scenario A ends in one group of three members.
C9_ScenarioAOneGroup ==
    (ScenarioA /\ pc = "grouped") =>
        /\ Len(groups) = 1
        /\ Len(groups[1].member_versions) = 3

\* C9 as amended. Scenario A ends in three groups of one member each, every
\* record reduced to its lr (model and batch_size are stripped as common).
C9_ScenarioAThreeGroups ==
    (ScenarioA /\ pc = "grouped") =>
        /\ Len(groups) = 3
        /\ \A g \in 1..3 : /\ Len(groups[g].member_versions) = 1
                           /\ DOMAIN groups[g].base_parameters = {"lr"}

C9_Witness == ScenarioA /\ pc = "grouped" /\ Len(versions) = 3

\* The configuration with the two tolerances replaced.
WithTolerance(cfg, it, ft) ==
    [cfg EXCEPT !.tolerance.int_tolerance = it, !.tolerance.float_tolerance = ft]

\* The tolerance settings at least as wide as the configured ones.
Wider ==
    {<<it, ft>> \in (0..MaxTol) \X {10000 * n : n \in 0..MaxTol} :
        it >= config.tolerance.int_tolerance /\ ft >= config.tolerance.float_tolerance}

SameGroup(gs, a, b) ==
    \E g \in 1..Len(gs) :
        a \in Range(gs[g].member_versions) /\ b \in Range(gs[g].member_versions)

\* C10 as claimed. Tolerance monotonicity: two records group_versions puts in
\* one group stay in one group under any wider int_tolerance or float_tolerance.
C10_ToleranceMonotone ==
    pc = "grouped" =>
        \A w \in Wider :
            LET wide == group_versions(WithTolerance(config, w[1], w[2]), versions)
            IN  \A a, b \in Range(versions) :
                    SameGroup(groups, a, b) => SameGroup(wide, a, b)

\* C10 as amended. A record that is in the group of the last input record (the
\* first one processed) stays in its group under any wider tolerance.
C10_FirstGroupMonotone ==
    pc = "grouped" =>
        \A w \in Wider :
            LET wide == group_versions(WithTolerance(config, w[1], w[2]), versions)
                first == versions[Len(versions)]
            IN  \A a \in Range(versions) :
                    SameGroup(groups, a, first) => SameGroup(wide, a, first)

\* Under int_tolerance 1 the first record processed has one companion, under
\* int_tolerance 2 it has two.
C10_Witness ==
    /\ pc = "grouped"
    /\ Len(versions) = 3
    /\ config.tolerance.int_tolerance = 1
    /\ ~config.grouping_parameters.some
    /\ Cardinality({a \in Range(versions) : SameGroup(groups, a, versions[3])}) = 2
    /\ LET wide == group_versions(WithTolerance(config, 2, 10000), versions)
       IN  Len(wide) = 1

\* C11. Similarity exclusion: the list find_similar_groups stores under a
\* group's group_id never contains that group_id.
C11_SimilarityExclusion ==
    pc = "similar" =>
        \A g \in 1..Len(groups) :
            groups[g].group_id \notin Range(similar_groups[groups[g].group_id])

\* The number of keys of p1 absent from p2 or present but not tolerant-equal,
\* plus the number of keys of p2 absent from p1.
DiffCount(p1, p2) ==
    Cardinality({k \in DOMAIN p1 \ DOMAIN p2 : TRUE})
      + Cardinality({k \in DOMAIN p1 \cap DOMAIN p2 :
                        ~equals_with_tolerance(p1[k], p2[k], config.tolerance)})
      + Cardinality({k \in DOMAIN p2 \ DOMAIN p1 : TRUE})

\* C12. Similarity relation: the keys of the result are the groups' ids, and
\* for two distinct groups i and j the id of j is listed under the id of i if
\* and only if their difference count is at most similarity_threshold.
C12_SimilarityRelation ==
    pc = "similar" =>
        /\ DOMAIN similar_groups = {groups[g].group_id : g \in 1..Len(groups)}
        /\ \A i, j \in 1..Len(groups) :
              i # j =>
                  (groups[j].group_id \in Range(similar_groups[groups[i].group_id])
                     <=> DiffCount(groups[i].base_parameters, groups[j].base_parameters)
                            <= config.similarity_threshold)

\* The matching rule as the specification words it: every allow-listed
\* attribute the group's base has, the record has.
BaseKeysPresent(version, group) ==
    \A param \in Range(config.grouping_parameters.val) :
        param \in DOMAIN group.base_parameters => param \in DOMAIN version.hparams

C20_MembersMatchBase ==
    (pc = "grouped" /\ ~config.grouping_parameters.some) =>
        \A g \in 1..Len(groups) :
            \A m \in 1..Len(groups[g].member_versions) :
                LET hparams == groups[g].member_versions[m].hparams
                    base == groups[g].base_parameters
                IN  /\ DOMAIN hparams = DOMAIN base
                    /\ \A k \in DOMAIN base :
                          equals_with_tolerance(hparams[k], base[k], config.tolerance)
                    /\ count_different_parameters(hparams, base, config) = 0

Hashed == pc = "returned" /\ call_args.fn = "compute_params_hash"

\* C13. Hash/equality consistency: a mapping with the same key set whose
\* values are tolerant-equal on every key has the same hash under the same
\* configuration.
C13_HashEqualityConsistency ==
    Hashed =>
        \A other \in HashParams :
            (/\ DOMAIN other = DOMAIN call_args.params
             /\ \A k \in DOMAIN other :
                   equals_with_tolerance(call_args.params[k], other[k],
                                         call_args.cfg.tolerance))
            => compute_params_hash(other, call_args.cfg) = call_result

\* C14. Order independence of hashing: the hash is the same whatever the
\* order in which the mapping yields its key/value pairs.
C14_HashOrderIndependent ==
    Hashed =>
        LET to_hash == params_to_hash(call_args.params, call_args.cfg)
        IN  \A order \in IterationOrders(DOMAIN to_hash) :
                hash_in_order(to_hash, order, call_args.cfg) = call_result

\* Three keys hashed, yielded neither in ascending nor in descending order.
C14_Witness ==
    /\ Hashed
    /\ call_args.keys = <<"lr", "model", "batch_size">>
    /\ Len(call_result) = 6

Compared == pc = "returned" /\ call_args.fn = "equals_with_tolerance"

\* Tolerant equality as the specification defines it, on mathematical
\* integers; floats are left to the code.
RECURSIVE RefEquals(_, _, _)
RefEquals(a, b, tolerance) ==
    IF a.t # b.t THEN FALSE
    ELSE CASE a.t = "String" ->
                 IF tolerance.string_case_sensitive THEN a.v = b.v
                 ELSE to_lowercase(a.v) = to_lowercase(b.v)
           [] a.t = "Int" -> Abs(a.v - b.v) <= tolerance.int_tolerance
           [] a.t = "Bool" -> a.v = b.v
           [] a.t = "Float" -> basic_equals_with_tolerance(a, b, tolerance)
           [] a.t = "List" ->
                 /\ Len(a.v) = Len(b.v)
                 /\ \A i \in 1..Len(a.v) : RefEquals(a.v[i], b.v[i], tolerance)

\* C15. Tolerant equality returns what its reference definition gives, for all
\* values, and is reflexive and symmetric.
C15_TolerantEquality ==
    Compared =>
        /\ ~call_result.ab.panicked
        /\ call_result.ab.value = RefEquals(call_args.a, call_args.b, call_args.tolerance)
        /\ ~call_result.aa.panicked /\ call_result.aa.value
        /\ ~call_result.ba.panicked /\ call_result.ba.value = call_result.ab.value

Flattened == pc = "returned" /\ call_args.fn = "flatten_yaml_value"

\* The values that differ from v only in the order of the entries of its
\* mapping nodes.
RECURSIVE Reorderings(_)
Reorderings(v) ==
    CASE v.t = "Mapping" ->
            LET n == Len(v.v)
                children == {c \in [1..n -> UNION {Reorderings(v.v[i][2]) : i \in 1..n}] :
                                \A i \in 1..n : c[i] \in Reorderings(v.v[i][2])}
            IN  {YMap([i \in 1..n |-> <<v.v[order[i]][1], c[order[i]]>>])
                    : <<order, c>> \in IterationOrders(1..n) \X children}
      [] v.t = "Sequence" ->
            LET n == Len(v.v)
            IN  {YSeq(c) : c \in {d \in [1..n -> UNION {Reorderings(v.v[i]) : i \in 1..n}] :
                                     \A i \in 1..n : d[i] \in Reorderings(v.v[i])}}
      [] v.t = "Tagged" -> {YTagged(c) : c \in Reorderings(v.v)}
      [] OTHER -> {v}

\* C16. Flattener determinism: the flat mapping of a document is the same
\* whatever the order in which the sibling keys of its mapping nodes are
\* visited.
C16_FlattenDeterminism ==
    (Flattened /\ call_result.ok) =>
        \A w \in Reorderings(call_args.value) :
            flatten_yaml_value(w, EmptyMap, call_args.path) = call_result

\* A value built from mappings with string keys, scalars and nulls only.
RECURSIVE NestedMappings(_)
NestedMappings(v) ==
    /\ v.t = "Mapping"
    /\ \A i \in 1..Len(v.v) :
          /\ v.v[i][1].t = "String"
          /\ \/ v.v[i][2].t \in {"String", "Number", "Bool", "Null"}
             \/ NestedMappings(v.v[i][2])

\* The non-null scalar leaves of such a value in document order, each with the
\* keys on its path from the root.
RECURSIVE LeafList(_, _)
LeafList(v, keys) ==
    LET RECURSIVE from(_)
        from(i) ==
            IF i > Len(v.v) THEN <<>>
            ELSE LET child == v.v[i][2]
                     path == Append(keys, v.v[i][1].v)
                 IN  (CASE child.t = "Mapping" -> LeafList(child, path)
                        [] child.t = "Null" -> <<>>
                        [] OTHER -> <<[path |-> path, leaf |-> child]>>)
                     \o from(i + 1)
    IN  from(1)

\* C17. Flattening of mappings and scalars: one entry per non-null scalar
\* leaf, keyed by the keys on its path joined with '-'; an integral number is
\* an Int, any other number a Float, a string a String, a boolean a Bool.
C17_FlattenMappings ==
    (Flattened /\ NestedMappings(call_args.value)) =>
        LET leaves == LeafList(call_args.value, <<>>)
            flat == call_result.output
        IN  /\ call_result.ok
            /\ Cardinality(DOMAIN flat) = Len(leaves)
            /\ \A i \in 1..Len(leaves) :
                  LET key == JoinStrings(leaves[i].path, "-")
                      leaf == leaves[i].leaf
                  IN  /\ key \in DOMAIN flat
                      /\ flat[key] =
                            (CASE leaf.t = "String" -> PString(leaf.v)
                               [] leaf.t = "Bool" -> PBool(leaf.v)
                               [] leaf.t = "Number" ->
                                     IF leaf.v.is_i64 THEN PInt(leaf.v.n) ELSE leaf.v.f)

\* What the element of a sequence contributes at its own path: a leaf its
\* value, a null nothing, a sequence of leaves one List, a mapping of leaves
\* one entry per key.
ElementEntries(item, path) ==
    CASE item.t = "Null" -> EmptyMap
      [] item.t = "Sequence" ->
            [k \in {path} |->
                PList([i \in 1..Len(item.v) |-> base_value_to_parameter_value(item.v[i])])]
      [] item.t = "Mapping" ->
            [k \in {path \o "-" \o item.v[i][1].v : i \in 1..Len(item.v)} |->
                LET i == CHOOSE j \in 1..Len(item.v) : k = path \o "-" \o item.v[j][1].v
                IN  base_value_to_parameter_value(item.v[i][2])]
      [] OTHER -> [k \in {path} |-> base_value_to_parameter_value(item)]

\* C18. Flattening of sequences: a sequence of strings, numbers and booleans
\* (the empty one too) becomes one List at its path, the elements in order;
\* any other sequence gives no entry at its path and the entries of each
\* element at the path extended with '-' and the element's index from zero;
\* every List of every output holds only basic values.
C18_FlattenSequences ==
    Flattened =>
        /\ call_args.value.t = "Sequence" =>
              LET seq == call_args.value.v
                  path == call_args.path
                  flat == call_result.output
              IN  IF \A i \in 1..Len(seq) : seq[i].t \in {"String", "Number", "Bool"}
                  THEN /\ call_result.ok
                       /\ DOMAIN flat = {path}
                       /\ flat[path].t = "List"
                       /\ Len(flat[path].v) = Len(seq)
                       /\ \A i \in 1..Len(seq) :
                             flat[path].v[i] = base_value_to_parameter_value(seq[i])
                  ELSE /\ call_result.ok
                       /\ path \notin DOMAIN flat
                       /\ DOMAIN flat =
                             UNION {DOMAIN ElementEntries(seq[i], path \o "-" \o ToString(i - 1))
                                       : i \in 1..Len(seq)}
                       /\ \A i \in 1..Len(seq) :
                             LET entries == ElementEntries(seq[i],
                                                           path \o "-" \o ToString(i - 1))
                             IN  \A k \in DOMAIN entries : flat[k] = entries[k]
        /\ \A k \in DOMAIN call_result.output :
              call_result.output[k].t = "List" =>
                  \A i \in 1..Len(call_result.output[k].v) :
                      call_result.output[k].v[i].t \in {"String", "Int", "Float", "Bool"}

\* A sequence at path "a" whose first element is a mapping and whose second is
\* a sequence of leaves.
C18_Witness ==
    /\ Flattened
    /\ call_args.path = "a"
    /\ call_args.value = YSeq(<<YMap(<<<<YString("b"), YInt(1)>>>>), YSeq(<<YInt(1)>>)>>)
    /\ DOMAIN call_result.output = {"a-0-b", "a-1"}

----------------------------------------------------------------------------
(* group_versions, step by step *)

\* The record the next iteration of the while loop takes from the stack.
CurrentRecord == ungrouped_versions[Len(ungrouped_versions)]

\* The group the current record founds when it founds one.
FoundedGroup ==
    [group_id |-> compute_params_hash(CurrentRecord.hparams, config),
     base_parameters |-> CurrentRecord.hparams,
     member_versions |-> <<CurrentRecord>>]

\* An iteration of the while loop creates a group only when no group accepts
\* the current record, with that record as base and sole member, and otherwise
\* appends the record to one group; every other field of every group is kept.
IterationKeepsGroups ==
    \/ /\ Len(groups') = Len(groups) + 1
       /\ \A g \in 1..Len(groups) :
             /\ ~can_add_to_group(config, CurrentRecord, groups[g])
             /\ groups'[g] = groups[g]
       /\ groups'[Len(groups')] = FoundedGroup
    \/ /\ Len(groups') = Len(groups)
       /\ \E g \in 1..Len(groups) :
             /\ groups'[g] = [groups[g] EXCEPT !.member_versions = Append(@, CurrentRecord)]
             /\ \A h \in (1..Len(groups)) \ {g} : groups'[h] = groups[h]

\* The sorts that end the pass keep every group's id, base and members.
ReturnKeepsGroups ==
    /\ Len(groups') = Len(groups)
    /\ \E p \in IterationOrders(1..Len(groups)) :
          \A g \in 1..Len(groups) :
              /\ groups'[p[g]].group_id = groups[g].group_id
              /\ groups'[p[g]].base_parameters = groups[g].base_parameters
              /\ Len(groups'[p[g]].member_versions) = Len(groups[g].member_versions)
              /\ Range(groups'[p[g]].member_versions) = Range(groups[g].member_versions)

\* C21. Group creation and stability: a group is created only when no existing
\* group accepts the current record, with that record's attribute map as base,
\* its hash as group_id and the record as sole member; afterwards a group's
\* group_id and base_parameters never change and its members only grow.
C21_GroupCreationStability ==
    [][pc = "grouping" =>
          IF pc' = "grouping" THEN IterationKeepsGroups ELSE ReturnKeepsGroups]_vars

C21_Witness ==
    /\ pc = "grouping"
    /\ ungrouped_versions = <<>>
    /\ Len(groups) >= 2
    /\ \E g \in 1..Len(groups) : Len(groups[g].member_versions) >= 2

\* The position of a record in the list group_versions was given.
Position(v) == CHOOSE i \in 1..Len(versions) : versions[i] = v

\* The list is in ascending order of version_num.
SortedInput ==
    \A i, j \in 1..Len(versions) :
        i < j => versions[i].version_num < versions[j].version_num

\* C22. Stack-order processing: the records are taken from the last of the
\* input list to the first, so the records still to be processed are a prefix
\* of the list, and each group's base_parameters is the attribute map of its
\* member that stands latest in the list (on a list sorted by version_num, the
\* member with the greatest version_num).
C22_StackOrder ==
    pc \in {"grouping", "grouped"} =>
        /\ ungrouped_versions = SubSeq(versions, 1, Len(ungrouped_versions))
        /\ \A g \in 1..Len(groups) :
              \E m \in Range(groups[g].member_versions) :
                  /\ groups[g].base_parameters = m.hparams
                  /\ \A other \in Range(groups[g].member_versions) :
                        /\ Position(other) <= Position(m)
                        /\ SortedInput => other.version_num <= m.version_num

C22_Witness ==
    /\ pc = "grouped"
    /\ \E g \in 1..Len(groups) :
          \E m \in Range(groups[g].member_versions) :
              m.hparams # groups[g].base_parameters

\* While the loop runs the groups stand in creation order and the first
\* member of a group is the record that founded it.
Founder(g) == groups[g].member_versions[1]

\* Group g existed when record m was processed: its founder was popped
\* before m, so it stands after m in the list.
ExistedFor(g, m) == Position(Founder(g)) > Position(m)

\* C23. First-match assignment: a record is a member of the earliest-created
\* group that accepted it when it was processed: no group created before its
\* group, and existing at that time, accepts it, and its own group accepts it
\* unless the record founded it.
C23_FirstMatch ==
    pc = "grouping" =>
        \A j \in 1..Len(groups) :
            \A m \in Range(groups[j].member_versions) :
                /\ \A i \in 1..(j - 1) :
                      ExistedFor(i, m) => ~can_add_to_group(config, m, groups[i])
                /\ m # Founder(j) => can_add_to_group(config, m, groups[j])

C23_Witness ==
    /\ pc = "grouping"
    /\ \E i, j \in 1..Len(groups) :
          /\ i < j
          /\ \E m \in Range(groups[i].member_versions) :
                /\ m # Founder(i)
                /\ ExistedFor(j, m)
                /\ can_add_to_group(config, m, groups[j])

\* C24. Output ordering: in the result of group_versions the members of every
\* group are in ascending version_num order and the groups are in
\* non-increasing order of member count.
C24_OutputOrdering ==
    pc = "grouped" =>
        /\ \A g \in 1..Len(groups) :
              \A a, b \in 1..Len(groups[g].member_versions) :
                  a < b => groups[g].member_versions[a].version_num
                             <= groups[g].member_versions[b].version_num
        /\ \A g, h \in 1..Len(groups) :
              g < h => Len(groups[g].member_versions) >= Len(groups[h].member_versions)

\* A result whose largest group was not the first one created.
C24_Witness ==
    /\ pc = "grouped"
    /\ Len(groups) >= 2
    /\ Len(groups[1].member_versions) > Len(groups[2].member_versions)
    /\ GroupAll(config, versions, <<>>)[1].group_id # groups[1].group_id

\* The files whose flattening returns Ok, in the order of the input.
Flattens(file) == flatten_yaml_value(file.yaml_value, EmptyMap, "").ok

GoodFiles == SelectSeq(call_args.file_paths, Flattens)

\* C25. A file whose flattening fails contributes no record and no partial
\* attribute map: the parsed list is the flattening of the other files in
\* input order, the returned records are theirs, and the pass fails only for
\* a main key missing from a file that did flatten.
C25_FailedFlatteningSkipped ==
    pc \in {"start", "listed", "failed"} =>
        /\ Len(parsed_results) = Len(GoodFiles)
        /\ \A i \in 1..Len(GoodFiles) :
              parsed_results[i] =
                  [version_num |-> GoodFiles[i].version_num,
                   hparams |-> flatten_yaml_value(GoodFiles[i].yaml_value, EmptyMap, "").output]
        /\ pc = "listed" =>
              {versions[i].version_num : i \in 1..Len(versions)}
                  = {GoodFiles[i].version_num : i \in 1..Len(GoodFiles)}
        /\ pc = "failed" =>
              /\ config.main_key.some
              /\ \E i \in 1..Len(GoodFiles) :
                    /\ error.val.version_num = GoodFiles[i].version_num
                    /\ error.val.main_key \notin
                          DOMAIN flatten_yaml_value(GoodFiles[i].yaml_value, EmptyMap, "").output

\* A failing file between two good ones, with an entry inserted before the
\* failure; the pass returned the two records.
C25_Witness ==
    /\ pc = "listed"
    /\ Len(call_args.file_paths) = 3
    /\ ~Flattens(call_args.file_paths[2])
    /\ flatten_yaml_value(call_args.file_paths[2].yaml_value, EmptyMap, "").output # EmptyMap
    /\ Len(versions) = 2
    /\ versions[1].version_num = 1
    /\ versions[2].version_num = 3

\* The buckets of the main_key branch that hold position i of the returned list.
BucketsHolding(i) == {g \in BucketKeys : i \in BucketMembers(g)}

\* C26. With main_key configured and create_version_data_list returning Ok,
\* every returned record is in exactly one bucket and still has every main-key
\* attribute, whatever the ignore-list and the allow-list.
C26_MainKeyBucketsTotal ==
    (Listed /\ config.main_key.some) =>
        \A i \in 1..Len(versions) :
            /\ Cardinality(BucketsHolding(i)) = 1
            /\ \A k \in Range(config.main_key.val) : k \in DOMAIN versions[i].hparams

\* C27. Group identifiers are unique: two distinct groups returned by
\* group_versions have different group_ids, so find_similar_groups yields one
\* key per group.
C27_GroupIdsUnique ==
    /\ pc \in {"grouped", "similar"} =>
          \A g, h \in 1..Len(groups) : g # h => groups[g].group_id # groups[h].group_id
    /\ pc = "similar" => Cardinality(DOMAIN similar_groups) = Len(groups)

\* find_similar_groups recorded group h as similar to group g.
Recorded(g, h) ==
    \E n \in 1..Len(similar_groups[groups[g].group_id]) :
        similar_groups[groups[g].group_id][n] = groups[h].group_id

\* C28. The difference count is symmetric: count_different_parameters(a, b)
\* and count_different_parameters(b, a) return the same, and for distinct
\* groups g and h find_similar_groups records h as similar to g if and only
\* if it records g as similar to h.
C28_DiffCountSymmetric ==
    /\ pc = "returned" => call_result.ab = call_result.ba
    /\ pc = "similar" =>
          \A g, h \in 1..Len(groups) : g # h => (Recorded(g, h) <=> Recorded(h, g))

\* Two maps that differ in what they hold and in a shared key, compared both
\* ways with a count above zero.
C28_Witness ==
    /\ pc = "returned"
    /\ ~call_result.ab.panicked
    /\ call_result.ab.value >= 2
    /\ DOMAIN call_args.params1 # DOMAIN call_args.params2
    /\ DOMAIN call_args.params1 \cap DOMAIN call_args.params2 # {}

\* C29. Global stripping leaves a single record untouched: with no main_key
\* and no allow-list, when exactly one record is ingested it is returned with
\* the attribute map the filter produced.
C29_SingleRecordUntouched ==
    (Listed /\ ~config.main_key.some /\ ~config.grouping_parameters.some
       /\ Len(parsed_results) = 1) =>
        /\ Len(versions) = 1
        /\ versions[1].hparams = Filtered(versions[1])

Max(a, b) == IF a >= b THEN a ELSE b

\* The range of the scroll offset for the content and the panel of the last
\* redraw.
MaxScroll == Max(0, tui.app.detail_content_len - tui.area_height)

\* C30. Detail-panel scrolling stays in range: computing the bound never
\* underflows, after every redraw detail_scroll_offset is between 0 and
\* max(0, content length - panel height), and the scroll action has been
\* consumed.
C30_DetailScrollInRange ==
    /\ ~tui.panicked
    /\ pc = "event" =>
          /\ tui.app.detail_scroll_offset >= 0
          /\ tui.app.detail_scroll_offset <= MaxScroll
          /\ tui.app.last_user_action \notin {"ScrollDetailUp", "ScrollDetailDown"}

====
